---- MODULE Spec2Model ----
(***************************************************************************)
(* A model of deepseek_telehealth3.py: the telehealth chat bot whose       *)
(* patient-info handler records request timestamps in the per-session      *)
(* user_data dictionary, extracts a patient record from the message        *)
(* (JSON first, labelled lines second), runs the language model as a       *)
(* blocking subprocess guarded by two staleness checkpoints, strips the    *)
(* <think> spans and the ** markers from the answer and replies.           *)
(*                                                                         *)
(* Texts are sequences of characters.  A character is the one-character    *)
(* string where a string can hold it (printable ASCII but the backtick,    *)
(* "\t", "\n", "\f", "\r") and the name of its code point, "U+" and at     *)
(* least four hex digits, elsewhere: "U+0000" is NUL, "U+017F" long s.     *)
(***************************************************************************)
EXTENDS Integers, Sequences, FiniteSets, TLC

(* ------------------------------ bounds -------------------------------- *)

\* Number of patient-info messages of the session that are handled.
MaxReq == 2
\* Largest reading of the wall clock (time.time()).
MaxTime == 2
\* Longest input of the <think> stripping, in fragments.
MaxFrags == 5
\* Longest input of clean_asterisks, in characters.
MaxStarLen == 5
\* The most calls on the stack beneath the handler's call of json.loads.
MaxStack == 30

(* ----------------------------- characters ----------------------------- *)

\* The characters of code points 32 to 126.
Ascii ==
    <<" ", "!", "\"", "#", "$", "%", "&", "'", "(", ")", "*", "+", ",", "-",
      ".", "/", "0", "1", "2", "3", "4", "5", "6", "7", "8", "9", ":", ";",
      "<", "=", ">", "?", "@", "A", "B", "C", "D", "E", "F", "G", "H", "I",
      "J", "K", "L", "M", "N", "O", "P", "Q", "R", "S", "T", "U", "V", "W",
      "X", "Y", "Z", "[", "\\", "]", "^", "_", "U+0060", "a", "b", "c", "d", "e",
      "f", "g", "h", "i", "j", "k", "l", "m", "n", "o", "p", "q", "r", "s",
      "t", "u", "v", "w", "x", "y", "z", "{", "|", "}", "~">>

HexDigits ==
    <<"0", "1", "2", "3", "4", "5", "6", "7", "8", "9", "A", "B", "C", "D",
      "E", "F">>

RECURSIVE Hex(_, _)
\* n in hexadecimal, with at least width digits.
Hex(n, width) ==
    IF n = 0 /\ width <= 0 THEN ""
    ELSE Hex(n \div 16, width - 1) \o HexDigits[(n % 16) + 1]

\* chr(n)
Chr(n) ==
    IF n \in 32..126 THEN Ascii[n - 31]
    ELSE IF n = 9 THEN "\t"
    ELSE IF n = 10 THEN "\n"
    ELSE IF n = 12 THEN "\f"
    ELSE IF n = 13 THEN "\r"
    ELSE "U+" \o Hex(n, 4)

NUL == Chr(0)

\* str.isspace(): the characters str.strip() trims and the regular
\* expressions' \s matches.
WS ==
    {Chr(n) : n \in {9, 10, 11, 12, 13, 28, 29, 30, 31, 32, 133, 160, 5760}
                    \cup 8192..8202 \cup {8232, 8233, 8239, 8287, 12288}}

\* The whitespace json.loads skips between tokens.
JsonWS == {" ", "\t", "\n", "\r"}

\* The characters a JSON string may hold only as an escape.
ControlChars == {Chr(n) : n \in 0..31}

\* The surrogates no UTF-8 argument of a process can hold; 56448 to 56575
\* stand for undecodable bytes and pass.
BadSurrogates == {Chr(n) : n \in (55296..57343) \ (56448..56575)}

\* The ASCII capitals and the lower-case letter of each.
Capitals == {Ascii[n - 31] : n \in 65..90}
LowerOf == [c \in Capitals |-> Ascii[(CHOOSE n \in 65..90 : Ascii[n - 31] = c) + 1]]
\* The lower-case form of an ASCII letter; any other character as it is.
Lower(c) == IF c \in Capitals THEN LowerOf[c] ELSE c

\* Character c matches the lower-case pattern letter p under re.IGNORECASE:
\* the two cases of the letter and, for "s", the long s.
CaseMatch(c, p) == Lower(c) = p \/ (p = "s" /\ c = Chr(383))

(* --------------------------- text helpers ----------------------------- *)

Max(S) == CHOOSE x \in S : \A y \in S : y <= x

\* s[i..] begins with pat.
MatchAt(s, pat, i) ==
    /\ i >= 1
    /\ i + Len(pat) - 1 <= Len(s)
    /\ \A k \in 1..Len(pat) : s[i + k - 1] = pat[k]

\* Index of the first occurrence of pat in s at or after i; 0 when none.
Find(s, pat, i) ==
    IF \E j \in i..(Len(s) - Len(pat) + 1) : MatchAt(s, pat, j)
    THEN CHOOSE j \in i..(Len(s) - Len(pat) + 1) :
             /\ MatchAt(s, pat, j)
             /\ \A k \in i..(j - 1) : ~MatchAt(s, pat, k)
    ELSE 0

Contains(s, pat) == Find(s, pat, 1) # 0

\* Number of whitespace characters at the head of s, and at its end.
LeadingWs(s) ==
    CHOOSE n \in 0..Len(s) :
        /\ n = Len(s) \/ s[n + 1] \notin WS
        /\ \A k \in 1..n : s[k] \in WS
TrailingWs(s) ==
    CHOOSE n \in 0..Len(s) :
        /\ n = Len(s) \/ s[Len(s) - n] \notin WS
        /\ \A k \in (Len(s) - n + 1)..Len(s) : s[k] \in WS
LStrip(s) == SubSeq(s, LeadingWs(s) + 1, Len(s))
RStrip(s) == SubSeq(s, 1, Len(s) - TrailingWs(s))

\* str.strip()
Strip(s) == RStrip(LStrip(s))

(* ------------------------ <think> stripping --------------------------- *)

OPEN == <<"<", "t", "h", "i", "n", "k", ">">>
CLOSE == <<"<", "/", "t", "h", "i", "n", "k", ">">>

RECURSIVE SubThink(_, _)
\* re.sub(r"<think>.*?</think>", "", s, flags=re.DOTALL), scanning from i:
\* at an open marker the lazy .*? ends at the first close marker after it
\* and the scan resumes behind that marker; elsewhere the character is kept.
SubThink(s, i) ==
    IF i > Len(s) THEN <<>>
    ELSE IF MatchAt(s, OPEN, i)
    THEN LET c == Find(s, CLOSE, i + Len(OPEN))
         IN  IF c = 0 THEN <<s[i]>> \o SubThink(s, i + 1)
             ELSE SubThink(s, c + Len(CLOSE))
    ELSE <<s[i]>> \o SubThink(s, i + 1)

\* Line 70: one pass of the substitution.
StripThink(s) == SubThink(s, 1)

\* A plausible slip: the emptiness test of line 72 is forgotten.
FinalTextUnchecked(raw) == [none |-> FALSE, text |-> Strip(StripThink(raw))]

\* Lines 70-72: the answer of run_deepseek once both checkpoints passed;
\* none stands for Python's None.
FinalText(raw) ==
    LET final_text == Strip(StripThink(raw))
    IN  IF final_text # <<>> THEN [none |-> FALSE, text |-> final_text]
        ELSE [none |-> TRUE, text |-> <<>>]

(* -------------------------- clean_asterisks --------------------------- *)

STARS == <<"*", "*">>

NoNewline(s, a, b) == \A k \in a..b : s[k] # "\n"

RECURSIVE SubBold(_, _)
\* re.sub(r"\*\*(.*?)\*\*", r"\1", s), scanning from i: at "**" the lazy
\* group ends at the first "**" that follows, and matches only when no
\* newline lies between (the dot does not match one).
SubBold(s, i) ==
    IF i > Len(s) THEN <<>>
    ELSE IF MatchAt(s, STARS, i)
    THEN LET j == Find(s, STARS, i + 2)
         IN  IF j # 0 /\ NoNewline(s, i + 2, j - 1)
             THEN SubSeq(s, i + 2, j - 1) \o SubBold(s, j + 2)
             ELSE <<s[i]>> \o SubBold(s, i + 1)
    ELSE <<s[i]>> \o SubBold(s, i + 1)

RECURSIVE RemoveStars(_, _)
\* str.replace("**", ""): the non-overlapping occurrences, left to right.
RemoveStars(s, i) ==
    IF i > Len(s) THEN <<>>
    ELSE IF MatchAt(s, STARS, i) THEN RemoveStars(s, i + 2)
    ELSE <<s[i]>> \o RemoveStars(s, i + 1)

\* A plausible slip: only the paired form is unwrapped (line 21 missing).
clean_asterisks_paired_only(text) == SubBold(text, 1)

\* Lines 19-22.
clean_asterisks(text) ==
    LET text_no_markdown == SubBold(text, 1)
    IN  RemoveStars(text_no_markdown, 1)


(* ------------------------------ values -------------------------------- *)

\* Python values are tagged: t is the type, v the content.  A dict is a
\* function from keys (texts) to values.  An int is its sign and its
\* decimal digits, without a zero at the head.  A float is the double it
\* is stored as: the sign, the biased exponent (0..2047) and the 52 bits
\* of the fraction, first bit first.
PyStr(s) == [t |-> "str", v |-> s]
PyInt(neg, digits) == [t |-> "int", v |-> [neg |-> neg, digits |-> digits]]
PyFloat(neg, exponent, fraction) ==
    [t |-> "float", v |-> [neg |-> neg, exponent |-> exponent, fraction |-> fraction]]
FractionBits == 52
\* The exponent field of the infinities and of NaN.
ExponentMax == 2047
ZeroFraction == [k \in 1..FractionBits |-> 0]
QuietFraction == [k \in 1..FractionBits |-> IF k = 1 THEN 1 ELSE 0]
\* float("nan")
PyNaN == PyFloat(FALSE, ExponentMax, QuietFraction)
\* float("inf"), float("-inf")
PyInf(neg) == PyFloat(neg, ExponentMax, ZeroFraction)
\* 0.0, -0.0
PyZero(neg) == PyFloat(neg, 0, ZeroFraction)
PyBool(b) == [t |-> "bool", v |-> b]
PyNone == [t |-> "NoneType", v |-> "None"]
PyList(s) == [t |-> "list", v |-> s]
PyDict(d) == [t |-> "dict", v |-> d]
EmptyDict == <<>>
EmptyStr == PyStr(<<>>)

\* d[k] = v
Put(d, k, v) == [x \in DOMAIN d \cup {k} |-> IF x = k THEN v ELSE d[x]]
\* d.get(k, default)
Get(d, k, default) == IF k \in DOMAIN d THEN d[k] ELSE default

(* ------------------------- decimal to double -------------------------- *)

\* float() of a decimal literal is the double nearest to the number the
\* literal spells, a tie going to the double with an even fraction.  The
\* number is kept exactly as a ratio of two naturals while the 53 bits are
\* taken from it; a natural is a sequence of limbs, base Base, the least
\* significant limb first.
Base == 1000000
\* The least exponent q of a double m * 2^q, m < 2^53.
MinExp == 0 - 1074
\* The bias of the exponent field, for m * 2^q with 2^52 <= m.
ExpBias == 1075
\* 10^309 is beyond the doubles, and a number below 10^-324 is nearer to
\* zero than to the least double.
MaxDecExp == 308
MinDecExp == 0 - 324
\* No tie between two doubles has more than 770 significant decimal
\* digits: digits behind the 800th only tell that the number is above
\* the 800 digits before them.
MaxSigDigits == 800
\* An exponent of more than 9 digits outweighs the digits of any text.
MaxExpDigits == 9

Zeros(n) == [k \in 1..n |-> 0]
\* Number of zeros at the head of the digits ds, and at their end.
LeadingZeros(ds) ==
    CHOOSE z \in 0..Len(ds) :
        /\ z = Len(ds) \/ ds[z + 1] # 0
        /\ \A k \in 1..z : ds[k] = 0
TrailingZeros(ds) ==
    CHOOSE z \in 0..Len(ds) :
        /\ z = Len(ds) \/ ds[Len(ds) - z] # 0
        /\ \A k \in (Len(ds) - z + 1)..Len(ds) : ds[k] = 0
\* The digits without the zeros at their head.
Significant(ds) == SubSeq(ds, LeadingZeros(ds) + 1, Len(ds))
\* The digits without the zeros at either end.
Core(ds) == SubSeq(ds, LeadingZeros(ds) + 1, Len(ds) - TrailingZeros(ds))

RECURSIVE IntOf(_)
\* The number the digits ds spell.
IntOf(ds) ==
    IF ds = <<>> THEN 0 ELSE IntOf(SubSeq(ds, 1, Len(ds) - 1)) * 10 + ds[Len(ds)]

Limb(x, i) == IF i >= 1 /\ i <= Len(x) THEN x[i] ELSE 0
Digit(ds, p) == IF p >= 1 THEN ds[p] ELSE 0
\* The limbs of the number the digits ds spell.
ToLimbs(ds) ==
    SubSeq([j \in 1..((Len(ds) + 5) \div 6) |->
               Digit(ds, Len(ds) - 6 * j + 6) + 10 * Digit(ds, Len(ds) - 6 * j + 5)
                   + 100 * Digit(ds, Len(ds) - 6 * j + 4)
                   + 1000 * Digit(ds, Len(ds) - 6 * j + 3)
                   + 10000 * Digit(ds, Len(ds) - 6 * j + 2)
                   + 100000 * Digit(ds, Len(ds) - 6 * j + 1)],
           1, (Len(ds) + 5) \div 6)
\* x without a zero limb at its top.
Trim(x) == IF Len(x) > 0 /\ x[Len(x)] = 0 THEN SubSeq(x, 1, Len(x) - 1) ELSE x
\* k * x for a k that divides Base: a limb takes the carry of the limb
\* below it and passes none on.
Mul(x, k) ==
    Trim(SubSeq([i \in 1..(Len(x) + 1) |->
                    ((k * Limb(x, i)) % Base) + ((k * Limb(x, i - 1)) \div Base)],
                1, Len(x) + 1))
\* 2^24 * x
Mul24(x) == Mul(Mul(Mul(Mul(x, 64), 64), 64), 64)
\* x = 0
IsZero(x) == \A i \in 1..Len(x) : x[i] = 0
\* x < y
Less(x, y) ==
    \E i \in 1..Max({Len(x), Len(y)}) :
        /\ Limb(x, i) < Limb(y, i)
        /\ \A j \in (i + 1)..Max({Len(x), Len(y)}) : Limb(x, j) = Limb(y, j)
\* The limbs below limb i of x - y borrow from it.
Borrows(x, y, i) ==
    \E j \in 1..(i - 1) :
        /\ Limb(x, j) < Limb(y, j)
        /\ \A k \in (j + 1)..(i - 1) : Limb(x, k) = Limb(y, k)
\* x - y, for y <= x
Minus(x, y) ==
    SubSeq([i \in 1..Len(x) |->
               (Limb(x, i) - Limb(y, i) - (IF Borrows(x, y, i) THEN 1 ELSE 0) + Base)
                   % Base],
           1, Len(x))

RECURSIVE ScaleDown(_, _, _), ScaleUp(_, _, _), MantissaBits(_, _, _)
\* The number is a/t * 2^(q+52).  t is doubled until a < 2t, then a is
\* doubled until t <= a or q is the least exponent: a/t * 2^52 is then the
\* 53-bit m of the double m * 2^q, before rounding.  An exponent beyond
\* the doubles ends the scaling: the double is an infinity whatever m.
ScaleDown(a, t, q) ==
    IF q + ExpBias >= ExponentMax THEN [a |-> a, t |-> t, q |-> q]
    ELSE IF ~Less(a, Mul(Mul24(t), 2)) THEN ScaleDown(a, Mul24(t), q + 24)
    ELSE IF ~Less(a, Mul(Mul(t, 64), 2)) THEN ScaleDown(a, Mul(t, 64), q + 6)
    ELSE IF ~Less(a, Mul(t, 2)) THEN ScaleDown(a, Mul(t, 2), q + 1)
    ELSE ScaleUp(a, t, q)
ScaleUp(a, t, q) ==
    IF q - 24 >= MinExp /\ Less(Mul24(a), Mul(t, 2))
    THEN ScaleUp(Mul24(a), t, q - 24)
    ELSE IF q - 6 >= MinExp /\ Less(Mul(a, 64), Mul(t, 2))
    THEN ScaleUp(Mul(a, 64), t, q - 6)
    ELSE IF q - 1 >= MinExp /\ Less(a, t) THEN ScaleUp(Mul(a, 2), t, q - 1)
    ELSE [a |-> a, t |-> t, q |-> q]

\* The bits of r/t, r < 2t, behind the bits acc, FractionBits + 1 in all;
\* up tells that what is left behind the last bit rounds the bits up: more
\* than half of it, or half of it behind an odd last bit.  When nothing is
\* left, the bits that follow are zeros.
MantissaBits(r, t, acc) ==
    IF IsZero(r)
    THEN [bits |-> acc \o Zeros(FractionBits + 1 - Len(acc)), up |-> FALSE]
    ELSE IF Len(acc) = FractionBits + 1
    THEN [bits |-> acc, up |-> Less(t, r) \/ (~Less(r, t) /\ acc[Len(acc)] = 1)]
    ELSE IF Less(r, t) THEN MantissaBits(Mul(r, 2), t, Append(acc, 0))
    ELSE MantissaBits(Mul(Minus(r, t), 2), t, Append(acc, 1))

\* bits + 1, with one more bit at the head for the carry.
Increment(bits) ==
    [k \in 1..(Len(bits) + 1) |->
        IF \A j \in k..Len(bits) : bits[j] = 1
        THEN (IF k = 1 THEN 1 ELSE 1 - bits[k - 1])
        ELSE (IF k = 1 THEN 0 ELSE bits[k - 1])]
\* The double of 53 bits m and the exponent q: subnormal when the first
\* bit is 0, an infinity when the exponent is beyond the field.
Pack(neg, m, q) ==
    IF m[1] = 0 THEN PyFloat(neg, 0, SubSeq(m, 2, FractionBits + 1))
    ELSE IF q + ExpBias >= ExponentMax THEN PyInf(neg)
    ELSE PyFloat(neg, q + ExpBias, SubSeq(m, 2, FractionBits + 1))
\* 54 bits with the carry of the rounding at the head: a carry out of 53
\* ones leaves 2^53, which is 2^52 with the next exponent.
Encode(neg, b, q) ==
    IF b[1] = 1 THEN Pack(neg, SubSeq(b, 1, FractionBits + 1), q + 1)
    ELSE Pack(neg, SubSeq(b, 2, FractionBits + 2), q)
Rounded(neg, mb, q) ==
    Encode(neg, IF mb.up THEN Increment(mb.bits) ELSE <<0>> \o mb.bits, q)
FloatOfScaled(neg, sc) ==
    Rounded(neg, MantissaBits(sc.a, sc.t, <<>>), sc.q)
\* The double nearest to a/t.
FloatOfRatio(neg, a, t) == FloatOfScaled(neg, ScaleDown(a, t, 0 - FractionBits))
\* The double nearest to core * 10^p, core being digits.
FloatOfDigits(neg, core, p) ==
    FloatOfRatio(neg,
                 ToLimbs(IF p > 0 THEN core \o Zeros(p) ELSE core),
                 ToLimbs(IF p < 0 THEN <<1>> \o Zeros(0 - p) ELSE <<1>>))
\* The same for digits with no zero at either end.
FloatOfDecimal(neg, core, p) ==
    IF Len(core) + p - 1 > MaxDecExp THEN PyInf(neg)
    ELSE IF Len(core) + p - 1 < MinDecExp THEN PyZero(neg)
    ELSE IF Len(core) > MaxSigDigits
    THEN FloatOfDigits(neg, SubSeq(core, 1, MaxSigDigits) \o <<1>>,
                       p + Len(core) - MaxSigDigits - 1)
    ELSE FloatOfDigits(neg, core, p)
\* float() of the literal with the digits ds, the last fracLen of them
\* behind the point, and the exponent digits xds with their sign.
FloatOf(neg, ds, fracLen, xneg, xds) ==
    IF Core(ds) = <<>> THEN PyZero(neg)
    ELSE IF Len(Significant(xds)) > MaxExpDigits
    THEN (IF xneg THEN PyZero(neg) ELSE PyInf(neg))
    ELSE FloatOfDecimal(neg, Core(ds),
                        (IF xneg THEN 0 - IntOf(Significant(xds))
                         ELSE IntOf(Significant(xds)))
                            - fracLen + TrailingZeros(ds))

(* ----------------------------- json.loads ----------------------------- *)

\* sys.getrecursionlimit() as the interpreter starts.
RecursionLimit == 1000
\* The calls between the caller of json.loads and the scanner: json.loads,
\* JSONDecoder.decode and raw_decode.
CallDepth == 3
\* The least count of calls on the stack when the handler calls json.loads.
MinStack == 2
\* What the scan asks of the stack above raw_decode: one call for each
\* object or array it is inside, and on top of them
\* ConstFrames for the call of parse_constant on NaN and the infinities,
\* ErrFrames for building the JSONDecodeError the scanner raises,
\* StopFrames for the one raw_decode builds from the scanner's
\* StopIteration ("Expecting value", counted from raw_decode whatever the
\* nesting), and ExtraFrames for the one decode builds ("Extra data").
ConstFrames == 1
ErrFrames == 3
StopFrames == 2
ExtraFrames == 1
\* sys.get_int_max_str_digits(): int() of more digits raises ValueError.
MaxStrDigits == 4300

Quote == "\""
Backslash == "\\"
Digits == {"0", "1", "2", "3", "4", "5", "6", "7", "8", "9"}
HexChars == Digits \cup {"a", "b", "c", "d", "e", "f", "A", "B", "C", "D", "E", "F"}

\* A scan ends with a value and the index behind it, or with the exception
\* err; need is the most it asked of the stack on the way.
JsonRaise(err, need) ==
    [ok |-> FALSE, err |-> err, val |-> EmptyStr, next |-> 0, need |-> need]
JsonFail(need) == JsonRaise("JSONDecodeError", need)
JsonDeep == JsonRaise("RecursionError", 0)
JsonOk(val, next, need) ==
    [ok |-> TRUE, err |-> "none", val |-> val, next |-> next, need |-> need]
\* The scanner found no value at nesting nest.
JsonStop(nest) == JsonFail(Max({nest, StopFrames}))
\* The result r of a scan that counted from nesting nest.
Nested(r, nest) == [r EXCEPT !.need = @ + nest]
\* The result r of the rest of a scan that asked for need before.
Deepen(r, need) == [r EXCEPT !.need = Max({@, need})]

\* Index of the first character of s at or after i that is no JSON
\* whitespace.
SkipWs(s, i) ==
    CHOOSE j \in i..(Len(s) + 1) :
        /\ j > Len(s) \/ s[j] \notin JsonWS
        /\ \A k \in i..(j - 1) : s[k] \in JsonWS

\* The value of a decimal or hexadecimal digit.
DigitVal(c) ==
    IF c \in Digits THEN CHOOSE n \in 0..9 : HexDigits[n + 1] = c
    ELSE CHOOSE n \in 10..15 : HexDigits[n + 1] = c \/ Lower(HexDigits[n + 1]) = c
\* The values of the digits cs.
DigitVals(cs) == SubSeq([k \in 1..Len(cs) |-> DigitVal(cs[k])], 1, Len(cs))

\* s[i..i+3] are four hexadecimal digits.
IsHex4(s, i) == i + 3 <= Len(s) /\ \A k \in 0..3 : s[i + k] \in HexChars
Hex4(s, i) ==
    4096 * DigitVal(s[i]) + 256 * DigitVal(s[i + 1]) + 16 * DigitVal(s[i + 2])
        + DigitVal(s[i + 3])

\* The character a one-letter escape stands for.
Unescape(c) ==
    CASE c = "b" -> Chr(8)
      [] c = "f" -> "\f"
      [] c = "n" -> "\n"
      [] c = "r" -> "\r"
      [] c = "t" -> "\t"
      [] OTHER -> c
EscapeChars == {Quote, Backslash, "/", "b", "f", "n", "r", "t"}

HighSurrogates == 55296..56319
LowSurrogates == 56320..57343

\* What ends a run of plain characters inside a string literal.
StringStops == {Quote, Backslash} \cup ControlChars
\* Index behind the run of plain characters that starts at s[i].
PlainEnd(s, i) ==
    CHOOSE j \in i..(Len(s) + 1) :
        /\ j > Len(s) \/ s[j] \in StringStops
        /\ \A k \in i..(j - 1) : s[k] \notin StringStops

RECURSIVE ScanString(_, _, _), ScanFrom(_, _, _), ScanUnicode(_, _, _, _)
RECURSIVE ScanPair(_, _, _, _, _)
\* The rest of a string literal from s[i] on, acc being the characters
\* decoded so far: the plain characters up to the next quote, backslash
\* or control character are taken as they are.  The need of the result
\* counts from the call that scans the string.
ScanString(s, i, acc) ==
    ScanFrom(s, PlainEnd(s, i), acc \o SubSeq(s, i, PlainEnd(s, i) - 1))

\* The same where s[i] is no plain character.  A control character, an
\* unknown escape, a \u without four hex digits and the end of the text are
\* errors.
ScanFrom(s, i, acc) ==
    IF i > Len(s) THEN JsonFail(ErrFrames)
    ELSE IF s[i] = Quote THEN JsonOk(PyStr(acc), i + 1, 0)
    ELSE IF s[i] \in ControlChars THEN JsonFail(ErrFrames)
    ELSE IF i + 1 > Len(s) THEN JsonFail(ErrFrames)
    ELSE IF s[i + 1] # "u"
    THEN IF s[i + 1] \in EscapeChars
         THEN ScanString(s, i + 2, Append(acc, Unescape(s[i + 1])))
         ELSE JsonFail(ErrFrames)
    ELSE IF ~IsHex4(s, i + 2) THEN JsonFail(ErrFrames)
    ELSE ScanUnicode(s, i, acc, Hex4(s, i + 2))

\* The escape \uXXXX at s[i], of value hi.  A high surrogate joins with a
\* \u escape of a low surrogate behind it when at least one more character
\* follows the pair.
ScanUnicode(s, i, acc, hi) ==
    IF /\ hi \in HighSurrogates
       /\ i + 12 <= Len(s)
       /\ s[i + 6] = Backslash
       /\ s[i + 7] = "u"
    THEN IF ~IsHex4(s, i + 8) THEN JsonFail(ErrFrames)
         ELSE ScanPair(s, i, acc, hi, Hex4(s, i + 8))
    ELSE ScanString(s, i + 6, Append(acc, Chr(hi)))

\* A high surrogate hi at s[i] and the escape of value lo behind it.
ScanPair(s, i, acc, hi, lo) ==
    IF lo \in LowSurrogates
    THEN ScanString(s, i + 12,
                    Append(acc, Chr(65536 + (hi - 55296) * 1024 + (lo - 56320))))
    ELSE ScanString(s, i + 6, Append(acc, Chr(hi)))

\* A string literal whose opening quote is s[i].
ParseString(s, i) == ScanString(s, i + 1, <<>>)

\* Index behind the run of digits that starts at s[i].
DigitsEnd(s, i) ==
    CHOOSE j \in i..(Len(s) + 1) :
        /\ j > Len(s) \/ s[j] \notin Digits
        /\ \A k \in i..(j - 1) : s[k] \in Digits

\* Index behind the fraction that starts at s[ie]: "." and at least one
\* digit; ie itself when there is none.
FracEnd(s, ie) ==
    IF ie + 1 <= Len(s) /\ s[ie] = "." /\ s[ie + 1] \in Digits
    THEN DigitsEnd(s, ie + 1)
    ELSE ie

\* Index of the first digit of the exponent that starts at s[fe]: "e" or
\* "E", an optional sign and at least one digit; 0 when there is none.
ExpDigits(s, fe) ==
    IF fe + 1 <= Len(s) /\ s[fe] \in {"e", "E"}
    THEN IF s[fe + 1] \in Digits THEN fe + 1
         ELSE IF fe + 2 <= Len(s) /\ s[fe + 1] \in {"+", "-"} /\ s[fe + 2] \in Digits
         THEN fe + 2
         ELSE 0
    ELSE 0

\* int() of the digits s[d..ie-1] with their sign; -0 is 0.
IntFrom(s, neg, d, ie) ==
    IF ie - d > MaxStrDigits THEN JsonRaise("ValueError", 0)
    ELSE JsonOk(PyInt(neg /\ s[d] # "0", SubSeq(s, d, ie - 1)), ie, 0)

\* float() of the literal whose integer part is s[d..ie-1], whose fraction
\* ends before fe and whose exponent is s[xd..xe-1], xd = 0 for none.
FloatFrom(s, neg, d, ie, fe, xd, xe) ==
    JsonOk(FloatOf(neg,
                   DigitVals(SubSeq(s, d, ie - 1) \o SubSeq(s, ie + 1, fe - 1)),
                   IF fe = ie THEN 0 ELSE fe - ie - 1,
                   xd # 0 /\ s[xd - 1] = "-",
                   IF xd = 0 THEN <<>> ELSE DigitVals(SubSeq(s, xd, xe - 1))),
           xe, 0)

\* The number whose integer part is s[d..ie-1], whose fraction ends before
\* fe and whose exponent digits start at xd: an int when it has neither
\* fraction nor exponent, a float otherwise.
NumberOf(s, neg, d, ie, fe, xd) ==
    IF fe = ie /\ xd = 0 THEN IntFrom(s, neg, d, ie)
    ELSE FloatFrom(s, neg, d, ie, fe, xd, IF xd = 0 THEN fe ELSE DigitsEnd(s, xd))

NumberFrom(s, neg, d, ie) ==
    NumberOf(s, neg, d, ie, FracEnd(s, ie), ExpDigits(s, FracEnd(s, ie)))

\* A number literal at s[i], which is "-" or a digit: an optional "-", then
\* "0" alone or a run of digits that does not start with "0", then the
\* fraction and the exponent when they are there.  Without a digit there
\* is no value.
ParseNumber(s, i) ==
    LET d == IF s[i] = "-" THEN i + 1 ELSE i
    IN  IF d > Len(s) \/ s[d] \notin Digits THEN JsonStop(0)
        ELSE NumberFrom(s, s[i] = "-", d,
                        IF s[d] = "0" THEN d + 1 ELSE DigitsEnd(s, d))
\* The number r read at nesting nest.
NumberAt(r, nest) == IF r.err = "JSONDecodeError" THEN JsonStop(nest) ELSE Nested(r, nest)

LitNull == <<"n", "u", "l", "l">>
LitTrue == <<"t", "r", "u", "e">>
LitFalse == <<"f", "a", "l", "s", "e">>
LitNaN == <<"N", "a", "N">>
LitInfinity == <<"I", "n", "f", "i", "n", "i", "t", "y">>

RECURSIVE ParseValue(_, _, _), ObjectFrom(_, _, _), ParseMembers(_, _, _, _)
RECURSIVE MemberColon(_, _, _, _), MemberValue(_, _, _, _, _), MemberNext(_, _, _, _, _)
RECURSIVE MemberSep(_, _, _, _), ArrayFrom(_, _, _), ParseElements(_, _, _, _)
RECURSIVE ElementNext(_, _, _, _), ElementSep(_, _, _, _)
\* The JSON value that starts at s[i], inside nest objects and arrays.
\* Where a value is expected, the end of the text and a character that
\* starts none end the scan without a value.
ParseValue(s, i, nest) ==
    IF i > Len(s) THEN JsonStop(nest)
    ELSE IF s[i] = Quote THEN Nested(ParseString(s, i), nest)
    ELSE IF s[i] = "{" THEN ObjectFrom(s, SkipWs(s, i + 1), nest + 1)
    ELSE IF s[i] = "[" THEN ArrayFrom(s, SkipWs(s, i + 1), nest + 1)
    ELSE IF MatchAt(s, LitNull, i) THEN JsonOk(PyNone, i + 4, nest)
    ELSE IF MatchAt(s, LitTrue, i) THEN JsonOk(PyBool(TRUE), i + 4, nest)
    ELSE IF MatchAt(s, LitFalse, i) THEN JsonOk(PyBool(FALSE), i + 5, nest)
    ELSE IF MatchAt(s, LitNaN, i) THEN JsonOk(PyNaN, i + 3, nest + ConstFrames)
    ELSE IF MatchAt(s, LitInfinity, i)
    THEN JsonOk(PyInf(FALSE), i + 8, nest + ConstFrames)
    ELSE IF s[i] = "-" /\ MatchAt(s, LitInfinity, i + 1)
    THEN JsonOk(PyInf(TRUE), i + 9, nest + ConstFrames)
    ELSE IF s[i] = "-" \/ s[i] \in Digits THEN NumberAt(ParseNumber(s, i), nest)
    ELSE JsonStop(nest)

\* An object at nesting nest whose first token behind "{" is at s[j].
ObjectFrom(s, j, nest) ==
    IF j <= Len(s) /\ s[j] = "}" THEN JsonOk(PyDict(EmptyDict), j + 1, nest)
    ELSE ParseMembers(s, j, EmptyDict, nest)

\* The members of an object from the key at s[i] on; acc holds the members
\* read so far.
ParseMembers(s, i, acc, nest) ==
    IF i > Len(s) \/ s[i] # Quote THEN JsonFail(nest + ErrFrames)
    ELSE MemberColon(s, Nested(ParseString(s, i), nest), acc, nest)

\* The key k is read: whitespace and ":" follow.
MemberColon(s, k, acc, nest) ==
    IF ~k.ok THEN k ELSE MemberValue(s, k.val.v, SkipWs(s, k.next), acc, nest)

MemberValue(s, key, c, acc, nest) ==
    IF c > Len(s) \/ s[c] # ":" THEN JsonFail(nest + ErrFrames)
    ELSE MemberNext(s, key, ParseValue(s, SkipWs(s, c + 1), nest), acc, nest)

\* The member's value val is read: it is stored under the key (a repeated
\* key keeps its last value).
MemberNext(s, key, val, acc, nest) ==
    IF ~val.ok THEN val
    ELSE Deepen(MemberSep(s, SkipWs(s, val.next), Put(acc, key, val.val), nest),
                val.need)

\* Behind a member: "}" ends the object, "," brings the next key.
MemberSep(s, d, acc, nest) ==
    IF d > Len(s) THEN JsonFail(nest + ErrFrames)
    ELSE IF s[d] = "}" THEN JsonOk(PyDict(acc), d + 1, nest)
    ELSE IF s[d] = "," THEN ParseMembers(s, SkipWs(s, d + 1), acc, nest)
    ELSE JsonFail(nest + ErrFrames)

\* An array at nesting nest whose first token behind "[" is at s[j].
ArrayFrom(s, j, nest) ==
    IF j <= Len(s) /\ s[j] = "]" THEN JsonOk(PyList(<<>>), j + 1, nest)
    ELSE ParseElements(s, j, <<>>, nest)

\* The elements of an array from the value at s[i] on.
ParseElements(s, i, acc, nest) ==
    ElementNext(s, ParseValue(s, i, nest), acc, nest)

ElementNext(s, val, acc, nest) ==
    IF ~val.ok THEN val
    ELSE Deepen(ElementSep(s, SkipWs(s, val.next), Append(acc, val.val), nest),
                val.need)

\* Behind an element: "]" ends the array, "," brings the next value.
ElementSep(s, d, acc, nest) ==
    IF d > Len(s) THEN JsonFail(nest + ErrFrames)
    ELSE IF s[d] = "]" THEN JsonOk(PyList(acc), d + 1, nest)
    ELSE IF s[d] = "," THEN ParseElements(s, SkipWs(s, d + 1), acc, nest)
    ELSE JsonFail(nest + ErrFrames)

\* Number of opening brackets in a row from s[i] on.
OpenRun(s, i) ==
    CHOOSE k \in 0..(Len(s) + 1 - i) :
        /\ i + k > Len(s) \/ s[i + k] # "["
        /\ \A j \in 0..(k - 1) : s[i + j] = "["

\* The value at s[start], which opens run arrays in a row.  The scanner
\* goes down one call for each bracket of the run, and an exception in the
\* innermost of these arrays is the one the scan ends with.
Document(s, start, run) ==
    IF run >= 2 /\ ~ParseValue(s, start + run - 1, run - 1).ok
    THEN ParseValue(s, start + run - 1, run - 1)
    ELSE ParseValue(s, start, 0)

\* The value is the whole text but for whitespace behind it.
WholeText(s, val) ==
    IF ~val.ok THEN val
    ELSE IF SkipWs(s, val.next) # Len(s) + 1
    THEN JsonFail(Max({val.need, ExtraFrames}))
    ELSE val

\* The document whose first token is at s[start].
LoadsFrom(s, start) == WholeText(s, Document(s, start, OpenRun(s, start)))

\* The byte order mark, which json.loads refuses before it scans.
BOM == Chr(65279)

\* The scan of json.loads(s): the value when the text is one JSON value
\* between optional whitespace, else the exception, and what the scan needs
\* of the stack.
json_scan(s) ==
    IF Len(s) > 0 /\ s[1] = BOM THEN JsonFail(0) ELSE LoadsFrom(s, SkipWs(s, 1))

\* The interpreter counts depth calls when json.loads is called: the call
\* that would bring the count to RecursionLimit raises RecursionError.
StackRunsOut(j, depth) == depth + CallDepth + j.need >= RecursionLimit
AtDepth(j, depth) == IF StackRunsOut(j, depth) THEN JsonDeep ELSE j

\* json.loads(s), called with depth calls on the stack.
json_loads(s, depth) == AtDepth(json_scan(s), depth)

(* ------------------------- parse_patient_data ------------------------- *)

\* \s*, greedy: index behind the whitespace run that starts at s[i].
SkipSpace(s, i) ==
    IF i > Len(s) THEN i
    ELSE CHOOSE j \in i..(Len(s) + 1) :
             /\ j > Len(s) \/ s[j] \notin WS
             /\ \A k \in i..(j - 1) : s[k] \in WS

\* The two words of each label: blood\s*pressure, blood\s*glucose and
\* stress\s*level.
BpWords == << <<"b", "l", "o", "o", "d">>, <<"p", "r", "e", "s", "s", "u", "r", "e">> >>
GlucoseWords == << <<"b", "l", "o", "o", "d">>, <<"g", "l", "u", "c", "o", "s", "e">> >>
StressWords == << <<"s", "t", "r", "e", "s", "s">>, <<"l", "e", "v", "e", "l">> >>

\* s[i..] begins with the word, in any mix of cases.
WordAt(s, word, i) ==
    /\ i + Len(word) - 1 <= Len(s)
    /\ \A k \in 1..Len(word) : CaseMatch(s[i + k - 1], word[k])

NoMatch == [ok |-> FALSE, grp |-> <<>>]

\* Index of the last character of the line that holds s[i].
LineEnd(s, i) ==
    CHOOSE j \in i..Len(s) :
        /\ j = Len(s) \/ s[j + 1] = "\n"
        /\ \A k \in (i + 1)..j : s[k] # "\n"

\* The pattern  word \s* word \s* : \s* ([^\n]+)  is tried at s[i] from
\* its end to its start.

\* The group ([^\n]+) from s[p] to the end of the line.
GroupAt(s, p) == [ok |-> TRUE, grp |-> SubSeq(s, p, LineEnd(s, p))]

\* The greedy \s* behind ":" gives whitespace back until the group can
\* start on a character that is not a newline: starts are the places where
\* it can, and the last one is taken.
GroupFrom(s, starts) == IF starts = {} THEN NoMatch ELSE GroupAt(s, Max(starts))

\* ":" at s[c], then the whitespace up to s[w], then the group.
ColonAt(s, c, w) ==
    IF c > Len(s) \/ s[c] # ":" THEN NoMatch
    ELSE GroupFrom(s, {p \in (c + 1)..w : p <= Len(s) /\ s[p] # "\n"})

\* The second word at s[b], then whitespace, then ":".
SecondWordAt(s, word, b, c) ==
    IF ~WordAt(s, word, b) THEN NoMatch ELSE ColonAt(s, c, SkipSpace(s, c + 1))

\* The first word has matched and the whitespace behind it ends at s[b].
AfterFirstWord(s, word, b) ==
    SecondWordAt(s, word, b, SkipSpace(s, b + Len(word)))

\* The whole pattern tried at s[i].
FieldAt(s, words, i) ==
    IF ~WordAt(s, words[1], i) THEN NoMatch
    ELSE AfterFirstWord(s, words[2], SkipSpace(s, i + Len(words[1])))

\* The match at the first of the places where the pattern matches.
FirstMatch(s, words, hits) ==
    IF hits = {} THEN NoMatch
    ELSE FieldAt(s, words, CHOOSE i \in hits : \A j \in hits : i <= j)

\* The places of s where the first letter of the word stands.
Starts(s, word) == {i \in 1..Len(s) : CaseMatch(s[i], word[1])}

\* re.search(pattern, text, re.IGNORECASE): the leftmost match.
FieldSearch(s, words) ==
    FirstMatch(s, words, {i \in Starts(s, words[1]) : FieldAt(s, words, i).ok})

KeyBp == <<"b", "l", "o", "o", "d", "_", "p", "r", "e", "s", "s", "u", "r", "e">>
KeyGlucose == <<"b", "l", "o", "o", "d", "_", "g", "l", "u", "c", "o", "s", "e">>
KeyStress == <<"s", "t", "r", "e", "s", "s", "_", "l", "e", "v", "e", "l">>

\* Lines 100-106: the field is stored when its pattern matched.
SetField(patient_info, key, match) ==
    IF match.ok THEN Put(patient_info, key, PyStr(Strip(match.grp)))
    ELSE patient_info

\* Lines 90-108.
parse_patient_data(text) ==
    SetField(SetField(SetField(EmptyDict,
                               KeyBp, FieldSearch(text, BpWords)),
                      KeyGlucose, FieldSearch(text, GlucoseWords)),
             KeyStress, FieldSearch(text, StressWords))

\* Line 142: the exceptions of the JSON parse that the handler catches.
\* json.JSONDecodeError is a ValueError; RecursionError is not.
FallsBack(err) == err \in {"JSONDecodeError", "ValueError"}

\* Lines 140-143: the record when json.loads ended as j.  A parse that
\* raises what line 142 does not catch gives no record: via is then the
\* exception that leaves the handler.
RecordOf(user_text, j) ==
    IF j.ok /\ j.val.t = "dict" THEN [via |-> "json", info |-> j.val.v]
    ELSE IF j.ok \/ FallsBack(j.err)
    THEN [via |-> "pattern", info |-> parse_patient_data(user_text)]
    ELSE [via |-> j.err, info |-> EmptyDict]

\* Lines 138-143: the patient record of a message and the path that gave
\* it, when the handler runs with depth calls on the stack.
ExtractRecord(user_text, depth) == RecordOf(user_text, json_loads(user_text, depth))

\* The count of calls on the stack when the handler calls json.loads is
\* not the program's to choose: it is what the event loop and the library
\* that call the handler have put there.  A coroutine that is resumed
\* with nothing beneath it runs at MinStack; under asyncio.run alone the
\* handler runs at 12.
StackDepths == MinStack..MaxStack
\* The ways json.loads ends for the scan j, over the depths of the stack.
LoadsOutcomes(j) == {AtDepth(j, depth) : depth \in StackDepths}
\* Lines 138-143 for every depth of the stack: the records
\* ExtractRecord(user_text, depth) gives.
ExtractRecords(user_text) ==
    {RecordOf(user_text, j) : j \in LoadsOutcomes(json_scan(user_text))}

\* Lines 75-77: the three fields build_prompt puts into its template.
build_prompt(patient_info) ==
    [bp |-> Get(patient_info, KeyBp, EmptyStr),
     glucose |-> Get(patient_info, KeyGlucose, EmptyStr),
     stress |-> Get(patient_info, KeyStress, EmptyStr)]

(* ------------------------------- state -------------------------------- *)

VARIABLES
    clock,      \* the latest reading of time.time(); 0 before the first
    user_data,  \* context.user_data of the session
    running,    \* the handler that holds the event loop; 0 when it is free,
                \* Halted when the application has ended
    pc,         \* each patient-info handler's position
    cmd_pc,     \* each command handler's position
    ts,         \* each handler's request_timestamp
    frame,      \* each handler's other locals
    outcome,    \* how each handler's request ended
    calls,      \* subprocess.run calls made for each request
    replies,    \* the texts each patient-info handler sent with reply_text
    cmd_replies, \* the texts each command handler sent with reply_text
    log,        \* the session's events, in order
    fn,         \* the text function under test: "strip", "clean" or "none"
    fn_in,      \* its input
    fn_out      \* its successive outputs

vars == <<clock, user_data, running, pc, cmd_pc, ts, frame, outcome, calls, replies,
          cmd_replies, log, fn, fn_in, fn_out>>
textvars == <<fn, fn_in, fn_out>>
botvars == <<clock, user_data, running, pc, cmd_pc, ts, frame, outcome, calls, replies,
             cmd_replies, log>>

Reqs == 1..MaxReq
Times == 1..MaxTime

\* Lines 166-167: the commands; the session sends each at most once.
Commands == {"start", "begin"}

LRT == "last_request_time"
LST == "last_success_time"

\* Line 147.
ERROR_REPLY ==
    <<"I", " ", "c", "o", "u", "l", "d", "n", "'", "t", " ", "u", "n", "d",
      "e", "r", "s", "t", "a", "n", "d", " ", "y", "o", "u", "r", " ", "i",
      "n", "p", "u", "t", ".", " ", "P", "l", "e", "a", "s", "e", " ", "t",
      "r", "y", " ", "a", "g", "a", "i", "n", ".">>
\* Lines 112-113.
START_REPLY ==
    <<"H", "e", "l", "l", "o", "!", " ", "I", "'", "m", " ", "y", "o", "u",
      "r", " ", "T", "e", "l", "e", "h", "e", "a", "l", "t", "h", " ", "A",
      "I", " ", "a", "s", "s", "i", "s", "t", "a", "n", "t", ".", "\n", "T",
      "y", "p", "e", " ", "/", "b", "e", "g", "i", "n", " ", "w", "h", "e",
      "n", " ", "y", "o", "u", "U+2019", "r", "e", " ", "r", "e", "a", "d",
      "y", " ", "t", "o", " ", "p", "r", "o", "v", "i", "d", "e", " ", "y",
      "o", "u", "r", " ", "h", "e", "a", "l", "t", "h", " ", "d", "a", "t",
      "a", ".">>
\* Lines 120-122.
BEGIN_REPLY ==
    <<"W", "e", "l", "c", "o", "m", "e", " ", "t", "o", " ", "H", "a", "p",
      "p", "y", " ", "H", "e", "a", "l", "t", "h", "y", " ", "H", "e", "a",
      "r", "t", " ", "b", "y", " ", "C", "l", "o", "s", "e", "A", "I", "!",
      "\n", "\n", "P", "l", "e", "a", "s", "e", " ", "p", "r", "o", "v", "i",
      "d", "e", " ", "y", "o", "u", "r", " ", "i", "n", "f", "o", "r", "m",
      "a", "t", "i", "o", "n", " ", "f", "o", "r", " ", "e", "x", "a", "m",
      "p", "l", "e", ":", "\n", "\n", "(", "Y", "o", "u", " ", "c", "a", "n",
      " ", "j", "u", "s", "t", " ", "c", "o", "p", "y", " ", "t", "h", "e",
      " ", "c", "h", "a", "t", " ", "b", "u", "b", "b", "l", "e", " ", "b",
      "e", "l", "o", "w", " ", "a", "n", "d", " ", "a", "l", "t", "e", "r",
      " ", "t", "h", "e", " ", "d", "a", "t", "a", ")">>
\* Line 126.
BEGIN_EXAMPLE ==
    <<"B", "l", "o", "o", "d", " ", "p", "r", "e", "s", "s", "u", "r", "e",
      ":", " ", "1", "2", "0", "/", "1", "0", "0", "\n", "B", "l", "o", "o",
      "d", " ", "g", "l", "u", "c", "o", "s", "e", ":", " ", "1", "0", "0",
      "\n", "S", "t", "r", "e", "s", "s", " ", "l", "e", "v", "e", "l", ":",
      " ", "2", "/", "1", "0">>

\* The message texts the session receives.
MsgHello ==
    <<" ", "h", "e", "l", "l", "o">>
MsgLabelled ==
    <<"B", "l", "o", "o", "d", " ", "p", "r", "e", "s", "s", "u", "r", "e",
      ":", " ", "1", "2", "\n", "B", "L", "O", "O", "D", "G", "L", "U", "C",
      "O", "S", "E", "\t", ":", "\t", "7", " ">>
MsgJson ==
    <<"{", "\"", "b", "l", "o", "o", "d", "_", "p", "r", "e", "s", "s", "u",
      "r", "e", "\"", ":", " ", "\"", "1", "2", "\\", "/", "8", "\"", ",",
      " ", "\"", "s", "t", "r", "e", "s", "s", "_", "l", "e", "v", "e", "l",
      "\"", ":", " ", "2", ".", "5", "0", "}">>
MsgJsonLabel ==
    <<"{", "\"", "n", "o", "t", "e", "\"", ":", "\"", "s", "t", "r", "e",
      "s", "s", " ", "l", "e", "v", "e", "l", ":", " ", "5", "\"", "}">>
MsgEmptyObj ==
    <<"{", " ", "}">>
MsgListLabel ==
    <<"[", "\"", "s", "t", "r", "e", "s", "s", " ", "l", "e", "v", "e", "l",
      ":", "5", "\"", ",", " ", "t", "r", "u", "e", "]">>
MsgJsonNul ==
    <<"{", "\"", "b", "l", "o", "o", "d", "_", "g", "l", "u", "c", "o", "s",
      "e", "\"", ":", " ", "\"", "\\", "u", "0", "0", "0", "0", "\"", "}">>
\* 1100 opening brackets: more than any stack holds.
MsgDeep == [i \in 1..1100 |-> "["]
\* 985 opening brackets: more than the stack holds when the handler runs
\* 12 calls deep or deeper.
MsgNearLimit == [i \in 1..985 |-> "["]
\* An object whose one value is an integer of 4301 digits, one more than
\* int() converts.
MsgLongInt ==
    <<"{", "\"", "b", "l", "o", "o", "d", "_", "p", "r", "e", "s", "s", "u",
      "r", "e", "\"", ":">> \o [i \in 1..(MaxStrDigits + 1) |-> "1"] \o <<"}">>
Messages ==
    {MsgHello, MsgLabelled, MsgJson, MsgJsonLabel, MsgEmptyObj, MsgListLabel,
     MsgJsonNul, MsgDeep, MsgNearLimit, MsgLongInt}

\* What the model process prints.
OutThinkOnly == OPEN \o <<"x">> \o CLOSE \o <<"\t", "\n">>
OutPlain == <<"o", "k", "\n">>
OutBold == OPEN \o <<"x", "\n", "y">> \o CLOSE \o <<"*", "*", "b", "*", "*">>
Completed(rc, out) == [kind |-> "CompletedProcess", returncode |-> rc, stdout |-> out]
Raises(exc) == [kind |-> exc, returncode |-> 0, stdout |-> <<>>]
\* The ways subprocess.run (lines 37-44) ends once the process is started:
\* the timeout, a process that cannot be started, the interrupt key pressed
\* while the call waits for the process (a KeyboardInterrupt where the
\* interpreter's own handler of the signal is in place), and the exits.
ProcOutcomes ==
    {Raises("TimeoutExpired"), Raises("OSError"), Raises("KeyboardInterrupt"),
     Completed(1, <<>>), Completed(0, OutThinkOnly), Completed(0, OutPlain),
     Completed(0, OutBold)}

NoProc == [kind |-> "none", returncode |-> 0, stdout |-> <<>>]
NoFrame ==
    [user_text |-> <<>>, via |-> "none", patient_info |-> EmptyDict,
     prompt |-> build_prompt(EmptyDict), result |-> NoProc, raw_response |-> <<>>,
     ai_response |-> <<>>]

Event(r, ev, val) == [req |-> r, ev |-> ev, val |-> val]

(* --------------------------- run_deepseek ----------------------------- *)

\* A plausible slip: only the newer request is looked for, not the newer
\* success (lines 31-33 and 66-68 missing).
IsStaleRequestOnly(ud, request_timestamp) ==
    Get(ud, LRT, 0) > request_timestamp

\* A plausible slip: >= where the code compares with >.
IsStaleOrEqual(ud, request_timestamp) ==
    \/ Get(ud, LRT, 0) >= request_timestamp
    \/ Get(ud, LST, 0) >= request_timestamp

\* Lines 27-33 and again lines 63-68: the two comparisons of a checkpoint.
IsStale(ud, request_timestamp) ==
    \/ Get(ud, LRT, 0) > request_timestamp
    \/ Get(ud, LST, 0) > request_timestamp

\* The characters of the prompt that come from the message: the fields
\* that are strings (the text of any other value has no NUL and no lone
\* surrogate: repr escapes both inside a list or a dict).
PromptChars(prompt) ==
    UNION {IF f.t = "str" THEN {f.v[k] : k \in 1..Len(f.v)} ELSE {} :
              f \in {prompt.bp, prompt.glucose, prompt.stress}}

\* Lines 36-37: the exception subprocess.run raises for a prompt that no
\* process argument can hold, before any process is started: the argument
\* is encoded first and then searched for NUL.
ArgError(prompt) ==
    IF PromptChars(prompt) \cap BadSurrogates # {} THEN "UnicodeEncodeError"
    ELSE IF NUL \in PromptChars(prompt) THEN "ValueError"
    ELSE "none"

\* The exception classes of the interpreter and its library that are no
\* Exception.
NotExceptions ==
    {"BaseException", "BaseExceptionGroup", "CancelledError", "GeneratorExit",
     "KeyboardInterrupt", "SystemExit"}
\* Lines 45-50: the exceptions of subprocess.run that run_deepseek catches:
\* TimeoutExpired and, at line 48, every other Exception.
Caught(exc) == exc \notin NotExceptions

\* A plausible slip: the success is stamped with a fresh time.time(), a
\* reading that comes after the request's.
SuccessStampNow(r) == ts[r] + 1

\* Line 156: the value stored as last_success_time.
SuccessStamp(r) == ts[r]

(* ------------------------ handle_patient_info ------------------------- *)

\* The handlers are coroutines of one event loop.  A handler gives the loop
\* up only in "await update.message.reply_text(...)" (lines 111, 119, 125,
\* 147 and 160); subprocess.run blocks the loop, so from line 132 to its
\* await or return a handler runs without any other handler of the session
\* in between.  The variable running names the patient-info handler that
\* holds the loop.  Whether the application starts the next handler while
\* one is suspended in its await or only after it has ended is the
\* library's choice; both orders are behaviours here.  log, replies and
\* cmd_replies only record what happened; no action reads them.

\* Line 171: run_polling has ended and no handler is started any more.
Halted == 0 - 1

\* Line 145: not patient_info.
IsEmptyRecord(patient_info) == patient_info = EmptyDict

Init ==
    /\ clock = 0
    /\ user_data = EmptyDict
    /\ running = 0
    /\ pc = [r \in Reqs |-> "idle"]
    /\ cmd_pc = [c \in Commands |-> "idle"]
    /\ ts = [r \in Reqs |-> 0]
    /\ frame = [r \in Reqs |-> NoFrame]
    /\ outcome = [r \in Reqs |-> "none"]
    /\ calls = [r \in Reqs |-> 0]
    /\ replies = [r \in Reqs |-> <<>>]
    /\ cmd_replies = [c \in Commands |-> <<>>]
    /\ log = <<>>
    /\ fn = "none"
    /\ fn_in = <<>>
    /\ fn_out = <<>>

\* Lines 110-116: /start is answered with the greeting.
start_command ==
    /\ running = 0
    /\ cmd_pc["start"] = "idle"
    /\ cmd_replies' = [cmd_replies EXCEPT !["start"] = Append(@, START_REPLY)]
    /\ cmd_pc' = [cmd_pc EXCEPT !["start"] = "done"]
    /\ UNCHANGED <<clock, user_data, running, pc, ts, frame, outcome, calls, replies,
                   log, textvars>>

\* Lines 118-123: /begin is answered with the instructions; the handler is
\* suspended in the first await.
begin_command ==
    /\ running = 0
    /\ cmd_pc["begin"] = "idle"
    /\ cmd_replies' = [cmd_replies EXCEPT !["begin"] = Append(@, BEGIN_REPLY)]
    /\ cmd_pc' = [cmd_pc EXCEPT !["begin"] = "example"]
    /\ UNCHANGED <<clock, user_data, running, pc, ts, frame, outcome, calls, replies,
                   log, textvars>>

\* Lines 125-128: the handler of /begin goes on and sends the example.
begin_example ==
    /\ running = 0
    /\ cmd_pc["begin"] = "example"
    /\ cmd_replies' = [cmd_replies EXCEPT !["begin"] = Append(@, BEGIN_EXAMPLE)]
    /\ cmd_pc' = [cmd_pc EXCEPT !["begin"] = "done"]
    /\ UNCHANGED <<clock, user_data, running, pc, ts, frame, outcome, calls, replies,
                   log, textvars>>

\* Lines 132-136: the event loop hands message m to a new handler, which
\* trims it, reads the clock, which shows t, and records the request.
Receive(r, m, t) ==
    /\ running = 0
    /\ pc[r] = "idle"
    /\ \A q \in Reqs : q < r => pc[q] # "idle"
    /\ clock' = t
    /\ ts' = [ts EXCEPT ![r] = t]
    /\ user_data' = Put(user_data, LRT, t)
    /\ frame' = [frame EXCEPT ![r].user_text = Strip(m)]
    /\ log' = Append(log, Event(r, "request_recorded", t))
    /\ running' = r
    /\ pc' = [pc EXCEPT ![r] = "parse"]
    /\ UNCHANGED <<cmd_pc, outcome, calls, replies, cmd_replies, textvars>>

\* Lines 144-150 once the record rec is extracted: the test for an empty
\* one and the prompt.  The handler ends at line 139 when the parse raised
\* what line 142 does not catch.
Extracted(r, rec) ==
    IF rec.via \in {"json", "pattern"}
    THEN /\ frame' = [frame EXCEPT ![r].via = rec.via,
                                   ![r].patient_info = rec.info,
                                   ![r].prompt = build_prompt(rec.info)]
         /\ pc' = [pc EXCEPT ![r] = IF IsEmptyRecord(rec.info)
                                    THEN "reply_error" ELSE "precheck"]
         /\ UNCHANGED <<running, outcome>>
    ELSE /\ frame' = [frame EXCEPT ![r] = NoFrame]
         /\ pc' = [pc EXCEPT ![r] = "done"]
         /\ outcome' = [outcome EXCEPT ![r] = "raised"]
         /\ running' = 0

\* Lines 138-143 for each text line 132 can make of a message of the
\* session: what the extraction gives depends on the text and the stack
\* depth only, and is worked out once for each text.
Extractions == [user_text \in {Strip(m) : m \in Messages} |-> ExtractRecords(user_text)]

\* Lines 138-150: the patient record, the test for an empty one, the prompt.
\* The depth of the stack the handler runs at decides whether a deeply
\* nested message is parsed or raises.
Parse(r) ==
    /\ running = r
    /\ pc[r] = "parse"
    /\ \E rec \in Extractions[frame[r].user_text] : Extracted(r, rec)
    /\ UNCHANGED <<clock, user_data, cmd_pc, ts, calls, replies, cmd_replies, log,
                   textvars>>

\* Lines 146-147: the fixed reply; the handler is suspended in the await.
ReplyError(r) ==
    /\ running = r
    /\ pc[r] = "reply_error"
    /\ replies' = [replies EXCEPT ![r] = Append(@, ERROR_REPLY)]
    /\ outcome' = [outcome EXCEPT ![r] = "unparseable"]
    /\ frame' = [frame EXCEPT ![r] = NoFrame]
    /\ running' = 0
    /\ pc' = [pc EXCEPT ![r] = "await"]
    /\ UNCHANGED <<clock, user_data, cmd_pc, ts, calls, cmd_replies, log, textvars>>

\* Lines 27-33: the checkpoint before the model call.
PreCheck(r) ==
    /\ running = r
    /\ pc[r] = "precheck"
    /\ log' = Append(log, Event(r, "pre_checkpoint", ts[r]))
    /\ IF IsStale(user_data, ts[r])
       THEN /\ outcome' = [outcome EXCEPT ![r] = "superseded"]
            /\ pc' = [pc EXCEPT ![r] = "got_none"]
       ELSE /\ pc' = [pc EXCEPT ![r] = "invoke"]
            /\ UNCHANGED outcome
    /\ UNCHANGED <<clock, user_data, running, cmd_pc, ts, frame, calls, replies,
                   cmd_replies, textvars>>

\* Lines 35-58: the blocking model call.  It ends as o, or with the
\* exception the prompt causes before the process is started.  An exception
\* that neither line 45 nor line 48 catches goes on out of run_deepseek.
Invoke(r, o) ==
    /\ running = r
    /\ pc[r] = "invoke"
    /\ calls' = [calls EXCEPT ![r] = @ + 1]
    /\ LET result == IF ArgError(frame[r].prompt) # "none"
                     THEN Raises(ArgError(frame[r].prompt))
                     ELSE o
       IN  IF result.kind # "CompletedProcess"
           THEN IF Caught(result.kind)
                THEN /\ outcome' = [outcome EXCEPT ![r] =
                            IF result.kind = "TimeoutExpired" THEN "timeout"
                            ELSE "exception"]
                     /\ pc' = [pc EXCEPT ![r] = "got_none"]
                     /\ frame' = [frame EXCEPT ![r].result = result]
                     /\ UNCHANGED running
                ELSE /\ pc' = [pc EXCEPT ![r] = "raising"]
                     /\ frame' = [frame EXCEPT ![r].result = result]
                     /\ UNCHANGED <<running, outcome>>
           ELSE IF result.returncode # 0
                THEN /\ outcome' = [outcome EXCEPT ![r] = "nonzero_exit"]
                     /\ pc' = [pc EXCEPT ![r] = "got_none"]
                     /\ frame' = [frame EXCEPT ![r].result = result]
                     /\ UNCHANGED running
                ELSE /\ frame' = [frame EXCEPT ![r].result = result,
                                               ![r].raw_response = Strip(result.stdout)]
                     /\ pc' = [pc EXCEPT ![r] = "postcheck"]
                     /\ UNCHANGED <<running, outcome>>
    /\ UNCHANGED <<clock, user_data, cmd_pc, ts, replies, cmd_replies, log, textvars>>

\* Line 151: the exception that left run_deepseek leaves the handler, which
\* has no try around the call, and reaches the event loop of line 171.  An
\* exception that is no Exception ends run_polling there; after_it is Halted
\* then, and 0 where the loop goes on.
Propagate(r, after_it) ==
    /\ running = r
    /\ pc[r] = "raising"
    /\ outcome' = [outcome EXCEPT ![r] = "raised"]
    /\ frame' = [frame EXCEPT ![r] = NoFrame]
    /\ pc' = [pc EXCEPT ![r] = "done"]
    /\ running' = after_it
    /\ UNCHANGED <<clock, user_data, cmd_pc, ts, calls, replies, cmd_replies, log,
                   textvars>>

\* Lines 62-72: the checkpoint after the model call, then the stripping.
PostCheck(r) ==
    /\ running = r
    /\ pc[r] = "postcheck"
    /\ log' = Append(log, Event(r, "post_checkpoint", ts[r]))
    /\ IF IsStale(user_data, ts[r])
       THEN /\ outcome' = [outcome EXCEPT ![r] = "superseded"]
            /\ pc' = [pc EXCEPT ![r] = "got_none"]
            /\ UNCHANGED frame
       ELSE LET final == FinalText(frame[r].raw_response)
            IN  IF final.none
                THEN /\ outcome' = [outcome EXCEPT ![r] = "empty_output"]
                     /\ pc' = [pc EXCEPT ![r] = "got_none"]
                     /\ UNCHANGED frame
                ELSE /\ frame' = [frame EXCEPT ![r].ai_response = final.text]
                     /\ pc' = [pc EXCEPT ![r] = "got_response"]
                     /\ UNCHANGED outcome
    /\ UNCHANGED <<clock, user_data, running, cmd_pc, ts, calls, replies, cmd_replies,
                   textvars>>

\* Lines 153-154: run_deepseek gave None and the handler returns.
ReturnNone(r) ==
    /\ running = r
    /\ pc[r] = "got_none"
    /\ frame' = [frame EXCEPT ![r] = NoFrame]
    /\ running' = 0
    /\ pc' = [pc EXCEPT ![r] = "done"]
    /\ UNCHANGED <<clock, user_data, cmd_pc, ts, outcome, calls, replies, cmd_replies,
                   log, textvars>>

\* Lines 156-160: the success is recorded, the answer cleaned and sent; the
\* handler is suspended in the await.
Success(r) ==
    /\ running = r
    /\ pc[r] = "got_response"
    /\ user_data' = Put(user_data, LST, SuccessStamp(r))
    /\ log' = Append(log, Event(r, "success_recorded", SuccessStamp(r)))
    /\ replies' = [replies EXCEPT ![r] = Append(@, clean_asterisks(frame[r].ai_response))]
    /\ outcome' = [outcome EXCEPT ![r] = "replied"]
    /\ frame' = [frame EXCEPT ![r] = NoFrame]
    /\ running' = 0
    /\ pc' = [pc EXCEPT ![r] = "await"]
    /\ UNCHANGED <<clock, cmd_pc, ts, calls, cmd_replies, textvars>>

\* Lines 148 and 160: the reply is out and the suspended handler ends.
Resume(r) ==
    /\ running = 0
    /\ pc[r] = "await"
    /\ pc' = [pc EXCEPT ![r] = "done"]
    /\ UNCHANGED <<clock, user_data, running, cmd_pc, ts, frame, outcome, calls,
                   replies, cmd_replies, log, textvars>>

\* The steps of handler r behind line 136.
Handle(r) ==
    \/ Parse(r)
    \/ ReplyError(r)
    \/ PreCheck(r)
    \/ \E o \in ProcOutcomes : Invoke(r, o)
    \/ \E after_it \in {0, Halted} : Propagate(r, after_it)
    \/ PostCheck(r)
    \/ ReturnNone(r)
    \/ Success(r)
    \/ Resume(r)

\* Lines 166-167: the command handlers the application dispatches to.
Command == start_command \/ begin_command \/ begin_example

\* Lines 166-171.  time.time() is the wall clock: a reading may be smaller
\* than the one before, when the system clock was set back in between.
Next ==
    \/ Command
    \/ \E r \in Reqs :
          \/ \E m \in Messages, t \in Times : Receive(r, m, t)
          \/ Handle(r)

\* The session under a wall clock that may be set back.
Spec == Init /\ [][Next]_vars

\* Receive when the reading is no smaller than the one before.
ReceiveMono(r, m, t) == t >= clock /\ Receive(r, m, t)

\* The same with readings that never go back.
NextMono ==
    \/ Command
    \/ \E r \in Reqs :
          \/ \E m \in Messages, t \in Times : ReceiveMono(r, m, t)
          \/ Handle(r)

\* The session under a clock that never goes back: request timestamps are
\* non-decreasing in arrival order.
SpecMono == Init /\ [][NextMono]_vars

(* ------------------- the text functions on their own ------------------- *)

ThinkFrags ==
    {OPEN, CLOSE, <<"<", "t", "h">>, <<"i", "n", "k", ">">>, <<"x">>, <<"\n">>}

RECURSIVE FragTexts(_)
\* The texts made of at most n fragments.
FragTexts(n) ==
    IF n = 0 THEN {<<>>}
    ELSE LET prev == FragTexts(n - 1)
         IN  prev \cup {p \o f : p \in prev, f \in ThinkFrags}

ThinkInputs == FragTexts(MaxFrags)

StarChars == {"*", "a", "\n"}
StarInputs == UNION {[1..n -> StarChars] : n \in 0..MaxStarLen}

InitText ==
    /\ clock = 0
    /\ user_data = EmptyDict
    /\ running = 0
    /\ pc = [r \in Reqs |-> "idle"]
    /\ cmd_pc = [c \in Commands |-> "idle"]
    /\ ts = [r \in Reqs |-> 0]
    /\ frame = [r \in Reqs |-> NoFrame]
    /\ outcome = [r \in Reqs |-> "none"]
    /\ calls = [r \in Reqs |-> 0]
    /\ replies = [r \in Reqs |-> <<>>]
    /\ cmd_replies = [c \in Commands |-> <<>>]
    /\ log = <<>>
    /\ fn_out = <<>>
    /\ \/ fn = "strip" /\ fn_in \in ThinkInputs
       \/ fn = "clean" /\ fn_in \in StarInputs

\* Line 70 applied to the text, then to its own output.
ApplyStrip ==
    /\ fn = "strip"
    /\ Len(fn_out) < 2
    /\ fn_out' = Append(fn_out,
                        StripThink(IF fn_out = <<>> THEN fn_in ELSE fn_out[Len(fn_out)]))
    /\ UNCHANGED <<fn, fn_in, botvars>>

\* clean_asterisks applied to the text.
ApplyClean ==
    /\ fn = "clean"
    /\ fn_out = <<>>
    /\ fn_out' = <<clean_asterisks(fn_in)>>
    /\ UNCHANGED <<fn, fn_in, botvars>>

NextText == ApplyStrip \/ ApplyClean

SpecText == InitText /\ [][NextText]_vars


(* ============================ properties ============================== *)

LogIdx == 1..Len(log)
EventsOf(r) == {i \in LogIdx : log[i].req = r}
SuccessIdx == {i \in LogIdx : log[i].ev = "success_recorded"}
Checkpoints == {"pre_checkpoint", "post_checkpoint"}
\* run_deepseek of request r has returned.
Returned(r) == pc[r] \in {"got_none", "got_response", "await", "done"}
\* Request q recorded a newer timestamp before request r reached a checkpoint.
NewerRecordedBeforeCheckpoint(r, q) ==
    /\ q # r
    /\ ts[q] > ts[r]
    /\ \E i \in LogIdx, j \in LogIdx :
          /\ i < j
          /\ log[i] = Event(q, "request_recorded", ts[q])
          /\ log[j].req = r
          /\ log[j].ev \in Checkpoints

\* C1: for two requests with timestamps t1 < t2, if the t2 request stored
\* its timestamp as last_request_time before the t1 call reached its
\* pre-call or post-call checkpoint, the t1 call returns None at or before
\* the post-call checkpoint, and the t1 handler sends no reply and writes no
\* last_success_time.
C1_NewerRequestSupersedes ==
    \A r \in Reqs, q \in Reqs :
        NewerRecordedBeforeCheckpoint(r, q) /\ Returned(r)
            => /\ pc[r] # "got_response"
               /\ outcome[r] # "replied"
               /\ replies[r] = <<>>
               /\ EventsOf(r) \cap SuccessIdx = {}

\* C2: last_success_time never decreases, whatever the order and the
\* timestamps of the requests.
C2_LastSuccessNeverDecreases ==
    [][Get(user_data', LST, 0) >= Get(user_data, LST, 0)]_vars

\* A request older than the stored success went through its handler and was
\* dropped.
C2_Witness ==
    \E r \in Reqs :
        /\ pc[r] = "done"
        /\ outcome[r] = "superseded"
        /\ SuccessIdx # {}
        /\ Get(user_data, LST, 0) > ts[r]

\* The text reads as a JSON object.
IsJsonObject(text) == json_scan(text).ok /\ json_scan(text).val.t = "dict"

\* The message gives no patient record: it is no JSON object with content
\* and no labelled field matches.
Unparseable(text) ==
    /\ ~(IsJsonObject(text) /\ json_scan(text).val.v # EmptyDict)
    /\ parse_patient_data(text) = EmptyDict

C3_UnparseableState ==
    \A r \in Reqs :
        outcome[r] = "unparseable"
            => /\ pc[r] \in {"await", "done"}
               /\ replies[r] = <<ERROR_REPLY>>
               /\ calls[r] = 0
               /\ {log[i] : i \in EventsOf(r)} = {Event(r, "request_recorded", ts[r])}
C3_UnparseableStep ==
    \A r \in Reqs :
        /\ (/\ running = r
            /\ pc[r] = "parse"
            /\ pc'[r] # "parse"
            /\ Unparseable(frame[r].user_text))
              => /\ pc'[r] = "reply_error"
                 /\ UNCHANGED <<user_data, replies, calls, log>>
        /\ (running = r /\ pc[r] = "reply_error")
              => /\ {log[i] : i \in EventsOf(r)} = {Event(r, "request_recorded", ts[r])}
                 /\ Get(user_data, LRT, 0) = ts[r]
                 /\ replies[r] = <<>>
                 /\ calls[r] = 0
                 /\ UNCHANGED <<user_data, calls, log>>
                 /\ pc'[r] # "reply_error"
                       => /\ pc'[r] = "await"
                          /\ outcome'[r] = "unparseable"
                          /\ replies' = [replies EXCEPT ![r] = <<ERROR_REPLY>>]
        /\ (pc[r] = "await" /\ pc'[r] # "await")
              => /\ pc'[r] = "done"
                 /\ UNCHANGED <<user_data, replies, calls, log, outcome>>
\* C3: a message that yields an empty patient record gets exactly one
\* reply, the fixed "I couldn't understand your input" message; no model
\* call is made, last_success_time is left as it was, and the handler's only
\* change of the session state is last_request_time := its timestamp.
C3_UnparseableGetsFixedReply ==
    []C3_UnparseableState /\ [][C3_UnparseableStep]_vars

\* The model call of a request ended as a failure: a timeout, another
\* exception, a non-zero exit, or output that is empty once stripped.
FailedCall(res) ==
    \/ res.kind \notin {"none", "CompletedProcess"}
    \/ res.kind = "CompletedProcess" /\ res.returncode # 0
    \/ /\ res.kind = "CompletedProcess"
       /\ Strip(StripThink(Strip(res.stdout))) = <<>>
FailureOutcomes == {"timeout", "exception", "nonzero_exit", "empty_output"}
\* The failure is one that run_deepseek turns into None: the call did not
\* end with an exception that lines 45-50 let through.
CaughtFailure(res) ==
    FailedCall(res) /\ (res.kind # "CompletedProcess" => Caught(res.kind))

C4_FailedCallState ==
    \A r \in Reqs :
        /\ calls[r] > 0 => outcome[r] # "raised"
        /\ (FailedCall(frame[r].result) /\ Returned(r))
              => /\ pc[r] = "got_none"
                 /\ outcome[r] \in FailureOutcomes \cup {"superseded"}
        /\ outcome[r] \in FailureOutcomes
              => /\ pc[r] \in {"got_none", "done"}
                 /\ calls[r] = 1
                 /\ replies[r] = <<>>
                 /\ EventsOf(r) \cap SuccessIdx = {}
C4_FailedCallStep ==
    \A r \in Reqs :
        (pc[r] = "got_none" /\ pc'[r] # "got_none")
            => /\ pc'[r] = "done"
               /\ UNCHANGED <<user_data, replies, calls, log, outcome>>
\* C4: a model call that times out, raises, exits non-zero or prints
\* nothing but stripped text makes run_deepseek return None after one
\* attempt; the handler then sends no reply, leaves last_success_time alone
\* and returns normally.
C4_FailedCallIsSilent == []C4_FailedCallState /\ [][C4_FailedCallStep]_vars

C4_CaughtFailureState ==
    \A r \in Reqs :
        /\ (CaughtFailure(frame[r].result) /\ pc[r] # "postcheck")
              => /\ pc[r] = "got_none"
                 /\ outcome[r] \in FailureOutcomes \cup {"superseded"}
        /\ outcome[r] \in FailureOutcomes
              => /\ pc[r] \in {"got_none", "done"}
                 /\ calls[r] = 1
                 /\ replies[r] = <<>>
                 /\ EventsOf(r) \cap SuccessIdx = {}
        /\ pc[r] = "raising"
              => /\ ~Caught(frame[r].result.kind)
                 /\ calls[r] = 1
        /\ (calls[r] > 0 /\ outcome[r] = "raised")
              => /\ pc[r] = "done"
                 /\ calls[r] = 1
                 /\ replies[r] = <<>>
                 /\ EventsOf(r) \cap SuccessIdx = {}
C4_CaughtFailureStep ==
    \A r \in Reqs :
        /\ (pc[r] = "got_none" /\ pc'[r] # "got_none")
              => /\ pc'[r] = "done"
                 /\ UNCHANGED <<user_data, replies, calls, log, outcome>>
        /\ (pc[r] = "raising" /\ pc'[r] # "raising")
              => /\ pc'[r] = "done"
                 /\ outcome'[r] = "raised"
                 /\ UNCHANGED <<user_data, replies, calls, log>>
\* C4 as amended: a model call that times out, raises an exception of class
\* Exception, exits non-zero or prints nothing but stripped text makes
\* run_deepseek return None after one attempt; the handler then sends no
\* reply, leaves last_success_time alone and returns normally.  Only a call
\* ended by an exception that is no Exception (the interrupt key) does not
\* return: after that one attempt the exception leaves the handler, which
\* has sent no reply and written no last_success_time.
C4_CaughtFailureIsSilent ==
    []C4_CaughtFailureState /\ [][C4_CaughtFailureStep]_vars

\* A call whose output was only a <think> span ended without a reply, and
\* then the call of the next request was interrupted and the exception
\* ended the application.
C4_Witness ==
    \E r \in Reqs, q \in Reqs :
        /\ pc[r] = "done"
        /\ outcome[r] = "empty_output"
        /\ calls[r] = 1
        /\ replies[r] = <<>>
        /\ outcome[q] = "raised"
        /\ calls[q] = 1
        /\ replies[q] = <<>>
        /\ running = Halted

HasMarker(s) == Contains(s, OPEN) \/ Contains(s, CLOSE)

\* C5: the <think> stripping is idempotent (stripping its own output
\* changes nothing) and returns a text without markers unchanged.
C5_StripIdempotent ==
    fn = "strip" =>
        /\ Len(fn_out) = 2 => fn_out[2] = fn_out[1]
        /\ (Len(fn_out) >= 1 /\ ~HasMarker(fn_in)) => fn_out[1] = fn_in

\* C6: the output of clean_asterisks holds no "**", and an input without
\* "**" is returned unchanged.
C6_NoStarsLeft ==
    (fn = "clean" /\ Len(fn_out) = 1) =>
        /\ ~Contains(fn_out[1], STARS)
        /\ ~Contains(fn_in, STARS) => fn_out[1] = fn_in

\* A text with a paired marker was cleaned to its contents.
C6_Witness ==
    /\ fn = "clean"
    /\ Len(fn_out) = 1
    /\ fn_in = <<"*", "*", "a", "*", "*">>
    /\ fn_out[1] = <<"a">>

\* The step in which handler r extracts the record of its message.
C7_ExtractStep ==
    \A r \in Reqs :
        (running = r /\ pc[r] = "parse" /\ pc'[r] # "parse") =>
            LET text == frame[r].user_text
            IN  IF IsJsonObject(text)
                THEN /\ frame'[r].via = "json"
                     /\ frame'[r].patient_info = json_scan(text).val.v
                ELSE /\ frame'[r].via = "pattern"
                     /\ frame'[r].patient_info = parse_patient_data(text)
\* C7: the JSON parse is tried first: a message that is a JSON object is
\* the patient record as it stands, also when a labelled-field pattern
\* matches the text; the patterns are used exactly when the parse fails or
\* gives something that is no object.
C7_JsonFirst == [][C7_ExtractStep]_vars

\* C8: a given timestamp value is written to last_success_time by at most
\* one request, also when requests receive equal timestamps.
C8_OneSuccessPerTimestamp ==
    \A i \in SuccessIdx, j \in SuccessIdx :
        log[i].val = log[j].val => log[i].req = log[j].req

\* C8 as amended: each request records at most one success and records it
\* with its own timestamp, and last_success_time is the last value recorded;
\* so two requests record the same value only when they received equal
\* timestamps.
C8_OneSuccessPerRequest ==
    /\ \A i \in SuccessIdx, j \in SuccessIdx : log[i].req = log[j].req => i = j
    /\ \A i \in SuccessIdx : log[i].val = ts[log[i].req]
    /\ SuccessIdx # {} => Get(user_data, LST, 0) = log[Max(SuccessIdx)].val
    /\ SuccessIdx = {} => LST \notin DOMAIN user_data
    /\ \A i \in SuccessIdx, j \in SuccessIdx :
          (log[i].req # log[j].req /\ log[i].val = log[j].val)
              => ts[log[i].req] = ts[log[j].req]

\* Two requests that received the same timestamp both recorded a success.
C8_Witness ==
    \E i \in SuccessIdx, j \in SuccessIdx :
        /\ log[i].req # log[j].req
        /\ log[i].val = log[j].val
        /\ ts[log[i].req] = ts[log[j].req]

\* Handler r is between recording its request and returning or suspending.
InFlight(r) == running = r /\ pc[r] \notin {"idle", "await", "done"}

\* C9: when the clock never goes back, no request is dropped as stale:
\* while a handler runs from recording last_request_time to writing
\* last_success_time no other handler runs, the stored last_request_time is
\* its own timestamp and the stored last_success_time is not newer, so all
\* four comparisons pass.
C9_NeverSuperseded ==
    \A r \in Reqs :
        /\ outcome[r] # "superseded"
        /\ InFlight(r) =>
              /\ Get(user_data, LRT, 0) = ts[r]
              /\ Get(user_data, LST, 0) <= ts[r]
              /\ ~IsStale(user_data, ts[r])
              /\ \A q \in Reqs \ {r} : pc[q] \in {"idle", "await", "done"}

\* A request passed both checkpoints after another request was answered
\* with the same or an older timestamp.
C9_Witness ==
    \E r \in Reqs, q \in Reqs :
        /\ q # r
        /\ outcome[q] = "replied"
        /\ pc[r] = "got_response"
        /\ {log[i].ev : i \in EventsOf(r)} =
              {"request_recorded", "pre_checkpoint", "post_checkpoint"}

C10_SuccessWritten ==
    (Len(log') = Len(log) + 1 /\ log'[Len(log')].ev = "success_recorded")
        => /\ Get(user_data', LST, 0) = Get(user_data', LRT, 0)
           /\ Get(user_data', LST, 0) = log'[Len(log')].val
\* C10: when the clock never goes back, last_success_time <= last_request_time
\* in every state (absent values counting as 0), and a success is written
\* with the value last_request_time has at that moment.
C10_SuccessNotAfterRequest ==
    /\ [](Get(user_data, LST, 0) <= Get(user_data, LRT, 0))
    /\ [][C10_SuccessWritten]_vars

\* The second answered request of a session has just recorded its success.
C10_Witness ==
    /\ Cardinality(SuccessIdx) = 2
    /\ log[Len(log)].ev = "success_recorded"
    /\ Get(user_data, LST, 0) = Get(user_data, LRT, 0)
    /\ Get(user_data, LST, 0) > 1

====
